---- MODULE Spec2Model ----
(***************************************************************************)
(* Model of the Monte Carlo simulation core of src/app.py:                 *)
(* sample_normal_dist (lines 112-117) and monte_carlo_simulation           *)
(* (lines 119-156), run against a fixed database content.                  *)
(*                                                                         *)
(* Number representation.  Sub-scores are kept in halves (SCALE = 2, from  *)
(* the /2 of the midpoint), weights in tenths (the slider step 0.1), so    *)
(* every product and sum is an integer.  The quotient                      *)
(* total_irl / normalization_factor is an exact fraction in lowest terms,  *)
(* in halves of a score point; floating point rounding is not modelled.    *)
(* numpy's inf and nan are the fractions 1/0 and 0/0.                      *)
(***************************************************************************)
EXTENDS Integers, Sequences, FiniteSets, TLC

\* ------------------------------------------------------------ bounds
MaxMethods == 2
MaxTrials == 2
MaxRuns == 2

\* ------------------------------------------------- program constants
SCORE_MIN == 0
SCORE_MAX == 9
SCALE == 2

VARIABLES
    selected_methods,   \* the bundle: a sequence of distinct method ids
    method_weights,     \* method id -> the four slider weights (tenths)
    service,            \* method id -> <<>> (no row) or <<row>>: .first()
    n_simulations,      \* requested trial count
    np_random,          \* state of numpy's global random generator
    pc,                 \* position in monte_carlo_simulation, or "idle"
    trial,              \* trials completed in the running call
    j,                  \* index of the next method of the inner loop
    total_irl,          \* local total_irl (weight tenths * score halves)
    total_np,           \* TRUE when total_irl is a numpy float64
    weights,            \* local weights: <<>> unbound, or <<vector>>
    irl_scores,         \* local irl_scores
    sub_scores,         \* history: method id -> samples of this trial
    skipped,            \* history: methods passed over by `if service:`
    draws,              \* history: draws consumed by the running call
    run_start,          \* history: generator state at call entry
    runs                \* history: outcome of every finished call

vars == <<selected_methods, method_weights, service, n_simulations,
          np_random, pc, trial, j, total_irl, total_np, weights,
          irl_scores, sub_scores, skipped, draws, run_start, runs>>

inputs == <<selected_methods, method_weights, service, n_simulations>>

\* ------------------------------------------------------- input sets
MethodIds == 1..MaxMethods

Params == <<"cost", "maturity", "integration", "interoperability">>

\* Slider values 0.0 .. 2.0 in steps of 0.1, in tenths: all zero, the
\* default 1.0 everywhere, and a light vector with only cost at 0.1.
WeightVectors ==
    { [cost_w |-> 0, maturity_w |-> 0, integration_w |-> 0, interoperability_w |-> 0],
      [cost_w |-> 10, maturity_w |-> 10, integration_w |-> 10, interoperability_w |-> 10],
      [cost_w |-> 1, maturity_w |-> 0, integration_w |-> 0, interoperability_w |-> 0] }

\* MethodTechnologyService rows: ordinary bounds, and a row with inverted
\* cost bounds and bounds at the edges of the score domain.
ServiceRows ==
    { [cost_min |-> 2, cost_max |-> 4, maturity_min |-> 3, maturity_max |-> 5,
       integration_min |-> 1, integration_max |-> 3,
       interoperability_min |-> 4, interoperability_max |-> 6],
      [cost_min |-> 5, cost_max |-> 3, maturity_min |-> 0, maturity_max |-> 0,
       integration_min |-> 0, integration_max |-> 1,
       interoperability_min |-> 9, interoperability_max |-> 9] }

QueryResults == {<<>>} \cup { <<r>> : r \in ServiceRows }

Range(s) == { s[k] : k \in DOMAIN s }

Bundles ==
    { s \in UNION { [1..n -> MethodIds] : n \in 0..MaxMethods } :
        \A a, b \in DOMAIN s : a # b => s[a] # s[b] }

\* ------------------------------------------- numpy's random generator
\* The generator is a deterministic machine: a state, a successor and the
\* standard normal value drawn in each state (here in whole units).
NoiseTable == <<0, -1, 1, -3, 2, -2, 3, 0, -1, 4, 1, -4, 0, 2, -2, 1>>

Seeds == {0, 5}

NextState(s) == (5 * s + 3) % Len(NoiseTable)

StdNormal(s) == NoiseTable[s + 1]

RECURSIVE Iterate(_, _)
Iterate(s, k) == IF k = 0 THEN s ELSE Iterate(NextState(s), k - 1)

\* ------------------------------------------------ sample_normal_dist
np_clip(x, lo, hi) == IF x < lo THEN lo ELSE IF x > hi THEN hi ELSE x

\* np.random.normal(mean_val, 0.5) in halves: 2*mean_val + 2*0.5*z.
np_random_normal(min_val, max_val, s) == (min_val + max_val) + StdNormal(s)

sample_clip_to_bounds(min_val, max_val, s) ==
    np_clip(np_random_normal(min_val, max_val, s), min_val * SCALE, max_val * SCALE)

sample_normal_dist(min_val, max_val, s) ==
    np_clip(np_random_normal(min_val, max_val, s), SCORE_MIN * SCALE, SCORE_MAX * SCALE)

BoundsOf(row, p) ==
    CASE p = "cost" -> <<row.cost_min, row.cost_max>>
      [] p = "maturity" -> <<row.maturity_min, row.maturity_max>>
      [] p = "integration" -> <<row.integration_min, row.integration_max>>
      [] p = "interoperability" -> <<row.interoperability_min, row.interoperability_max>>

\* The four calls of lines 130-133, in order, from generator state s.
SampleFour(row, s) ==
    [k \in DOMAIN Params |->
        LET b == BoundsOf(row, Params[k])
            st == Iterate(s, k - 1)
        IN  [min_val |-> b[1], max_val |-> b[2],
             draw |-> np_random_normal(b[1], b[2], st),
             score |-> sample_normal_dist(b[1], b[2], st)]]

\* --------------------------------------------------------- arithmetic
WeightedScore(w, smp) ==
    w.cost_w * smp[1].score + w.maturity_w * smp[2].score
    + w.integration_w * smp[3].score + w.interoperability_w * smp[4].score

SumWeights(w) == w.cost_w + w.maturity_w + w.integration_w + w.interoperability_w

RECURSIVE GCD(_, _)
GCD(a, b) == IF b = 0 THEN a ELSE GCD(b, a % b)

Frac(n, d) == LET g == GCD(n, d) IN [num |-> n \div g, den |-> d \div g]

Inf == [num |-> 1, den |-> 0]

NaN == [num |-> 0, den |-> 0]

Zero == [num |-> 0, den |-> 1]

\* total_irl / normalization_factor (line 152).  A numpy float64 divided by
\* zero gives inf or nan with a warning; a Python number raises.
TrueDivide(total, is_np, norm) ==
    IF norm # 0 THEN [raised |-> FALSE, value |-> Frac(total, norm)]
    ELSE IF is_np THEN [raised |-> FALSE, value |-> IF total = 0 THEN NaN ELSE Inf]
    ELSE [raised |-> TRUE, value |-> NaN]

NormalizationFactor(w, methods) == SumWeights(w) * Len(methods)

\* ------------------------------------------------------ control flow
MoreTrialsOffByOne(k, n) == k <= n

MoreTrials(k, n) == k < n

BundleAlwaysTruthy(methods) == Len(methods) >= 0

BundleNonEmpty(methods) == Len(methods) > 0

KeepScores(old) == old

FreshScores(old) == <<>>

NoSamples == [m \in Range(selected_methods) |-> <<>>]

Finished(status, error, scores) ==
    [start |-> run_start, status |-> status, error |-> error, scores |-> scores,
     draws |-> draws, end |-> np_random, skipped |-> skipped]

\* ------------------------------------- file watcher and database state
\* State of src/file_monitor.py (ExcelFileChangeHandler) and of the tables
\* src/database_setup.py fills.  The simulation above leaves it alone.
MaxTime == 17
MaxRows == 2

debounce_interval == 5

VARIABLES
    file_path,          \* self.file_path: the monitored file, absolute
    last_trigger_time,  \* self.last_trigger_time
    clock,              \* time.time(), whole seconds
    wpc,                \* "idle", or "process_file" inside on_modified
    event,              \* history: the event handled by the last step
    invocations,        \* history: the times process_file was invoked
    project,            \* TRUE once the DECODE project row exists
    task_table,           \* task_code of every Task row
    method_table,         \* Method rows in method_id order
    service_table,        \* MethodTechnologyService rows in service_id order
    completed           \* history: populate_data calls that passed step 6

etl_vars == <<file_path, last_trigger_time, clock, wpc, event, invocations,
              project, task_table, method_table, service_table, completed>>

\* A path is the sequence of its components; a component is a name split
\* into stem and final suffix, so that str.endswith can be decided.
Comp(stem, ext) == [stem |-> stem, ext |-> ext]

RootDir == Comp("/", "")

WatchDir == <<RootDir, Comp("w", "")>>

WorkingDir == WatchDir

os_path_isabs(p) == p # <<>> /\ p[1] = RootDir

\* os.path.normpath, as far as the paths below need it: "." is dropped.
os_path_normpath(p) == SelectSeq(p, LAMBDA c : c # Comp(".", ""))

os_path_abspath(p) ==
    os_path_normpath(IF os_path_isabs(p) THEN p ELSE WorkingDir \o p)

endswith(p, suffix) == p # <<>> /\ p[Len(p)].ext = suffix

NoEvent == [handled |-> FALSE, src_path |-> <<>>, time |-> 0, last |-> 0, invoked |-> FALSE]

\* The file given to ExcelFileChangeHandler, absolute or relative.
ConstructorPaths ==
    { WatchDir \o <<Comp("f", ".xlsx")>>, <<Comp("f", ".xlsx")>> }

EtlQuiet ==
    /\ file_path = os_path_abspath(<<Comp("f", ".xlsx")>>)
    /\ last_trigger_time = 0
    /\ clock = 0
    /\ wpc = "idle"
    /\ event = NoEvent
    /\ invocations = <<>>
    /\ project = FALSE
    /\ task_table = {}
    /\ method_table = <<>>
    /\ service_table = <<>>
    /\ completed = 0

Init ==
    /\ selected_methods \in Bundles
    /\ method_weights \in [Range(selected_methods) -> WeightVectors]
    /\ service \in [Range(selected_methods) -> QueryResults]
    /\ n_simulations \in 0..MaxTrials
    /\ np_random \in Seeds
    /\ pc = "idle"
    /\ trial = 0
    /\ j = 1
    /\ total_irl = 0
    /\ total_np = FALSE
    /\ weights = <<>>
    /\ irl_scores = <<>>
    /\ sub_scores = NoSamples
    /\ skipped = {}
    /\ draws = 0
    /\ run_start = np_random
    /\ runs = <<>>
    /\ EtlQuiet

\* The caller seeds numpy's global generator between calls.
SeedRandom ==
    /\ pc = "idle"
    /\ Len(runs) < MaxRuns
    /\ \E s \in Seeds : np_random' = s
    /\ UNCHANGED <<inputs, pc, trial, j, total_irl, total_np, weights,
                   irl_scores, sub_scores, skipped, draws, run_start, runs>>
    /\ UNCHANGED etl_vars

\* Entry of monte_carlo_simulation: fresh locals, irl_scores = [].
Enter ==
    /\ pc = "idle"
    /\ Len(runs) < MaxRuns
    /\ pc' = "for_trial"
    /\ trial' = 0
    /\ j' = 1
    /\ total_irl' = 0
    /\ total_np' = FALSE
    /\ weights' = <<>>
    /\ irl_scores' = FreshScores(irl_scores)
    /\ sub_scores' = NoSamples
    /\ skipped' = {}
    /\ draws' = 0
    /\ run_start' = np_random
    /\ UNCHANGED <<inputs, np_random, runs>>
    /\ UNCHANGED etl_vars

\* for _ in range(n_simulations): total_irl = 0
BeginTrial ==
    /\ pc = "for_trial"
    /\ MoreTrials(trial, n_simulations)
    /\ pc' = "for_method"
    /\ j' = 1
    /\ total_irl' = 0
    /\ total_np' = FALSE
    /\ sub_scores' = NoSamples
    /\ UNCHANGED <<inputs, np_random, trial, weights, irl_scores, skipped,
                   draws, run_start, runs>>
    /\ UNCHANGED etl_vars

\* One iteration of `for method in selected_methods` (lines 126-147).
MethodStep ==
    /\ pc = "for_method"
    /\ j <= Len(selected_methods)
    /\ LET m == selected_methods[j]
       IN  IF service[m] # <<>>
           THEN LET smp == SampleFour(service[m][1], np_random)
                    w == method_weights[m]
                IN  /\ np_random' = Iterate(np_random, Len(Params))
                    /\ draws' = draws + Len(Params)
                    /\ weights' = <<w>>
                    /\ total_irl' = total_irl + WeightedScore(w, smp)
                    /\ total_np' = TRUE
                    /\ sub_scores' = [sub_scores EXCEPT ![m] = smp]
                    /\ UNCHANGED skipped
           ELSE /\ skipped' = skipped \cup {m}
                /\ UNCHANGED <<np_random, draws, weights, total_irl, total_np,
                               sub_scores>>
    /\ j' = j + 1
    /\ UNCHANGED <<inputs, pc, trial, irl_scores, run_start, runs>>
    /\ UNCHANGED etl_vars

\* Lines 149-154: normalize and append, or raise.
Normalize ==
    /\ pc = "for_method"
    /\ j > Len(selected_methods)
    /\ IF BundleNonEmpty(selected_methods)
       THEN IF weights = <<>>
            THEN /\ runs' = Append(runs, Finished("raised", "UnboundLocalError", <<>>))
                 /\ pc' = "idle"
                 /\ UNCHANGED <<irl_scores, trial>>
            ELSE LET q == TrueDivide(total_irl, total_np,
                                     NormalizationFactor(weights[1], selected_methods))
                 IN  IF q.raised
                     THEN /\ runs' = Append(runs, Finished("raised", "ZeroDivisionError", <<>>))
                          /\ pc' = "idle"
                          /\ UNCHANGED <<irl_scores, trial>>
                     ELSE /\ irl_scores' = Append(irl_scores, q.value)
                          /\ trial' = trial + 1
                          /\ pc' = "for_trial"
                          /\ UNCHANGED runs
       ELSE /\ irl_scores' = Append(irl_scores, Zero)
            /\ trial' = trial + 1
            /\ pc' = "for_trial"
            /\ UNCHANGED runs
    /\ UNCHANGED <<inputs, np_random, j, total_irl, total_np, weights,
                   sub_scores, skipped, draws, run_start>>
    /\ UNCHANGED etl_vars

\* return np.array(irl_scores)
Return ==
    /\ pc = "for_trial"
    /\ ~MoreTrials(trial, n_simulations)
    /\ runs' = Append(runs, Finished("returned", "none", irl_scores))
    /\ pc' = "idle"
    /\ UNCHANGED <<inputs, np_random, trial, j, total_irl, total_np, weights,
                   irl_scores, sub_scores, skipped, draws, run_start>>
    /\ UNCHANGED etl_vars

Next == SeedRandom \/ Enter \/ BeginTrial \/ MethodStep \/ Normalize \/ Return

all_vars == <<vars, etl_vars>>

Spec == Init /\ [][Next]_all_vars

\* ---------------------------------------------- one trial as a function
\* Lines 125-154 for an arbitrary order `methods` of the bundle, with the
\* sampled sub-scores of each method held fixed at `subs`.
RECURSIVE InnerLoop(_, _, _, _)
InnerLoop(methods, subs, k, acc) ==
    IF k > Len(methods) THEN acc
    ELSE LET m == methods[k]
         IN  IF service[m] # <<>>
             THEN InnerLoop(methods, subs, k + 1,
                            [total |-> acc.total + WeightedScore(method_weights[m], subs[m]),
                             is_np |-> TRUE,
                             w |-> <<method_weights[m]>>])
             ELSE InnerLoop(methods, subs, k + 1, acc)

TrialOutcome(methods, subs) ==
    LET acc == InnerLoop(methods, subs, 1, [total |-> 0, is_np |-> FALSE, w |-> <<>>])
    IN  IF BundleNonEmpty(methods)
        THEN IF acc.w = <<>>
             THEN [raised |-> TRUE, value |-> NaN]
             ELSE TrueDivide(acc.total, acc.is_np, NormalizationFactor(acc.w[1], methods))
        ELSE [raised |-> FALSE, value |-> Zero]

Orderings(methods) ==
    { p \in Bundles : Len(p) = Len(methods) /\ Range(p) = Range(methods) }

\* A trial has just appended its score: sub_scores still holds its samples.
ScoreAppended == pc = "for_trial" /\ trial > 0

LastScore == irl_scores[trial]

WithService == { k \in DOMAIN selected_methods : service[selected_methods[k]] # <<>> }

InDomain(f) ==
    /\ f.den > 0
    /\ f.num >= SCORE_MIN * SCALE * f.den
    /\ f.num <= SCORE_MAX * SCALE * f.den

\* The stepwise loop and the one-trial function agree.
StepwiseAgrees ==
    ScoreAppended =>
        TrialOutcome(selected_methods, sub_scores) = [raised |-> FALSE, value |-> LastScore]

\* ------------------------------------------------------------- claims

\* C1: the trial score does not depend on the order of the methods in the
\* bundle: every permutation of selected_methods, with the same weights
\* and the same sub-scores per method, yields the score that was appended.
C1_OrderIndependent ==
    ScoreAppended =>
        \A p \in Orderings(selected_methods) :
            TrialOutcome(p, sub_scores) = [raised |-> FALSE, value |-> LastScore]

\* C2: for a non-empty bundle each trial score is the sum over all methods
\* of the four weight * sub_score products, divided by (the weight sum of
\* the last element of the bundle) * (the number of selected methods).
RECURSIVE SumProducts(_)
SumProducts(k) ==
    IF k = 0 THEN 0
    ELSE LET m == selected_methods[k]
         IN  SumProducts(k - 1)
             + (IF sub_scores[m] # <<>> THEN WeightedScore(method_weights[m], sub_scores[m])
                ELSE 0)

LastElement == selected_methods[Len(selected_methods)]

C2_LastElementNormalization ==
    (ScoreAppended /\ BundleNonEmpty(selected_methods)) =>
        LastScore = TrueDivide(SumProducts(Len(selected_methods)), TRUE,
                               SumWeights(method_weights[LastElement])
                               * Len(selected_methods)).value

\* C3: a method without a bounds record is never silently skipped: a call
\* that passed over one has aborted with an error and returned nothing.
C3_MissingBoundsAborts ==
    \A k \in DOMAIN runs : runs[k].skipped # {} => runs[k].status = "raised"

\* C4: with a zero normalization factor the call fails with a division by
\* zero error; no score is appended for that trial.
C4_ZeroFactorRaises ==
    (/\ weights # <<>>
     /\ NormalizationFactor(weights[1], selected_methods) = 0
     /\ pc # "for_method") =>
        /\ pc = "idle"
        /\ runs # <<>>
        /\ runs[Len(runs)].error = "ZeroDivisionError"

\* C5: a call that completes without error returns exactly n_simulations
\* scores; every completed trial has appended exactly one score.
C5_LengthIsTrialCount ==
    /\ pc # "idle" => Len(irl_scores) = trial /\ trial <= n_simulations
    /\ \A k \in DOMAIN runs :
          runs[k].status = "returned" => Len(runs[k].scores) = n_simulations

C5_Witness ==
    \E k \in DOMAIN runs :
        /\ runs[k].status = "returned"
        /\ Len(runs[k].scores) > 1
        /\ runs[k].skipped # {}
        /\ WithService # {}

\* C6: with an empty bundle every trial score is exactly 0 and no error is
\* raised; no sample is drawn, no weight is read, no division is made.
C6_EmptyBundleZero ==
    selected_methods = <<>> =>
        /\ \A k \in DOMAIN irl_scores : irl_scores[k] = Zero
        /\ weights = <<>>
        /\ draws = 0
        /\ np_random = run_start \/ pc = "idle"
        /\ \A k \in DOMAIN runs :
              /\ runs[k].status = "returned"
              /\ runs[k].draws = 0
              /\ runs[k].end = runs[k].start
              /\ \A i \in DOMAIN runs[k].scores : runs[k].scores[i] = Zero

C6_Witness ==
    /\ selected_methods = <<>>
    /\ \E k \in DOMAIN runs :
          /\ runs[k].status = "returned"
          /\ Len(runs[k].scores) > 1
          /\ Len(runs[k].scores) = n_simulations

\* C7: sample_normal_dist returns a value of the score domain [0, 9]: a
\* draw below 0 gives 0, a draw above 9 gives 9, a draw inside is returned
\* unchanged, whatever the declared [min_val, max_val].
Samples ==
    { sub_scores[m][k] : m \in { x \in DOMAIN sub_scores : sub_scores[x] # <<>> },
                         k \in DOMAIN Params }

C7_ClipToScoreDomain ==
    \A x \in Samples :
        /\ x.score >= SCORE_MIN * SCALE
        /\ x.score <= SCORE_MAX * SCALE
        /\ x.draw < SCORE_MIN * SCALE => x.score = SCORE_MIN * SCALE
        /\ x.draw > SCORE_MAX * SCALE => x.score = SCORE_MAX * SCALE
        /\ (x.draw >= SCORE_MIN * SCALE /\ x.draw <= SCORE_MAX * SCALE) => x.score = x.draw

C7_Witness ==
    /\ \E x \in Samples : x.draw < SCORE_MIN * SCALE /\ x.score = SCORE_MIN * SCALE
    /\ \E x \in Samples : x.draw > SCORE_MAX * SCALE /\ x.score = SCORE_MAX * SCALE
    /\ \E x \in Samples :
          /\ x.min_val <= x.max_val
          /\ x.draw < x.min_val * SCALE \/ x.draw > x.max_val * SCALE
          /\ x.draw > SCORE_MIN * SCALE
          /\ x.draw < SCORE_MAX * SCALE
          /\ x.score = x.draw

\* C8: sample fails with an invalid-bounds error whenever min_val > max_val;
\* it never returns a score for inverted bounds.
C8_InvertedBoundsRejected ==
    \A x \in Samples : x.min_val <= x.max_val

\* C9: two calls that start from the same generator state, with the same
\* bundle, weights, bounds and trial count, end with the same outcome,
\* element for element; a call consumes exactly 4 draws per method with
\* bounds per trial, in bundle order, and reads no other state.
ServiceRank(k) == Cardinality({ i \in WithService : i < k })

C9_Deterministic ==
    LET perTrial == Len(Params) * Cardinality(WithService)
    IN  /\ \A a, b \in DOMAIN runs :
              runs[a].start = runs[b].start =>
                  /\ runs[a].status = runs[b].status
                  /\ runs[a].error = runs[b].error
                  /\ runs[a].scores = runs[b].scores
                  /\ runs[a].end = runs[b].end
        /\ \A k \in DOMAIN runs :
              runs[k].status = "returned" => runs[k].draws = perTrial * n_simulations
        /\ pc # "idle" => np_random = Iterate(run_start, draws)
        /\ (pc = "for_method" /\ j > 1 /\ j - 1 \in WithService) =>
              /\ draws = perTrial * trial + Len(Params) * ServiceRank(j)
              /\ sub_scores[selected_methods[j - 1]] =
                     SampleFour(service[selected_methods[j - 1]][1],
                                Iterate(run_start, draws - Len(Params)))

C9_Witness ==
    /\ Len(runs) > 1
    /\ runs[1].start = runs[2].start
    /\ runs[1].status = "returned"
    /\ runs[1].end # runs[1].start
    /\ Len(runs[1].scores) > 1
    /\ runs[1].scores[1] # runs[1].scores[2]
    /\ runs[2].scores = runs[1].scores

\* C10: for a non-empty bundle with non-negative weights and a positive
\* normalization factor, every appended trial score lies in [0, 9].
C10_ScoreInRange ==
    (/\ BundleNonEmpty(selected_methods)
     /\ weights # <<>>
     /\ NormalizationFactor(weights[1], selected_methods) > 0) =>
        \A k \in DOMAIN irl_scores : InDomain(irl_scores[k])

\* ------------------------------------------------------- populate_data
\* What extract_methods_from_excel returns: the cleaned rows of the
\* workbook, in sheet and row order.  A name may occur more than once.
ExtractedRows ==
    { [task_code |-> "T1", name |-> "A", method_type |-> "Numerical", maturity |-> "TRL 5"],
      [task_code |-> "T1", name |-> "A", method_type |-> "Uncategorized", maturity |-> "TRL 5"],
      [task_code |-> "T2", name |-> "B", method_type |-> "Numerical", maturity |-> "TRL 4"],
      [task_code |-> "T1", name |-> "B", method_type |-> "Uncategorized", maturity |-> "TRL 5"] }

Workbooks ==
    { [exists |-> FALSE, rows |-> <<>>] }
    \cup { [exists |-> TRUE, rows |-> r] :
             r \in UNION { [1..n -> ExtractedRows] : n \in 0..MaxRows } }

\* existing_methods = {method.name: method for method in query.all()}:
\* for a name held by several rows the last row wins.
ExistingMethods(rows) ==
    [n \in { rows[i].name : i \in DOMAIN rows } |->
        CHOOSE i \in DOMAIN rows :
            /\ rows[i].name = n
            /\ \A k \in DOMAIN rows : rows[k].name = n => k <= i]

NewMethod(rows, d) ==
    [method_id |-> Len(rows) + 1, task_code |-> d.task_code, name |-> d.name,
     method_type |-> d.method_type, maturity |-> d.maturity]

\* Step 5, from row k of methods_data on.  existing_methods is the dict
\* built before the loop; the loop never adds to it.
RECURSIVE InsertOrUpdate(_, _, _, _)
InsertOrUpdate(methods_data, k, rows, existing_methods) ==
    IF k > Len(methods_data) THEN rows
    ELSE LET d == methods_data[k]
         IN  IF d.name \in DOMAIN existing_methods
             THEN InsertOrUpdate(methods_data, k + 1,
                      [rows EXCEPT ![existing_methods[d.name]].method_type = d.method_type,
                                   ![existing_methods[d.name]].maturity = d.maturity],
                      existing_methods)
             ELSE InsertOrUpdate(methods_data, k + 1, Append(rows, NewMethod(rows, d)),
                                 existing_methods)

\* Step 6: one new service row per Method row.  `call` stands for the
\* random technology and bounds drawn for the rows of this call.
AddServices(rows, svc, call) ==
    svc \o [i \in 1..Len(rows) |->
               [service_id |-> Len(svc) + i, method_id |-> rows[i].method_id, call |-> call]]

\* ------------------------------------------------------- file watcher
EventPaths ==
    { WatchDir \o <<Comp("f", ".xlsx")>>,
      <<Comp("f", ".xlsx")>>,
      WatchDir \o <<Comp(".", ""), Comp("f", ".xlsx")>>,
      WatchDir \o <<Comp("g", ".xlsx")>>,
      WatchDir \o <<Comp("~$f", ".xlsx")>>,
      WatchDir \o <<Comp("f.xlsx", "~$")>>,
      WatchDir \o <<Comp("f", ".tmp")>>,
      WatchDir }

DebounceNotStrict(current_time, last) == current_time - last >= debounce_interval

DebounceElapsed(current_time, last) == current_time - last > debounce_interval

SimQuiet ==
    /\ selected_methods = <<>>
    /\ method_weights = <<>>
    /\ service = <<>>
    /\ n_simulations = 0
    /\ np_random = 0
    /\ pc = "idle"
    /\ trial = 0
    /\ j = 1
    /\ total_irl = 0
    /\ total_np = FALSE
    /\ weights = <<>>
    /\ irl_scores = <<>>
    /\ sub_scores = <<>>
    /\ skipped = {}
    /\ draws = 0
    /\ run_start = 0
    /\ runs = <<>>

\* ExcelFileChangeHandler.__init__, with an empty database.
EtlInit ==
    /\ SimQuiet
    /\ file_path \in { os_path_abspath(p) : p \in ConstructorPaths }
    /\ last_trigger_time = 0
    /\ clock \in {0, debounce_interval + 1}
    /\ wpc = "idle"
    /\ event = NoEvent
    /\ invocations = <<>>
    /\ project = FALSE
    /\ task_table = {}
    /\ method_table = <<>>
    /\ service_table = <<>>
    /\ completed = 0

db_vars == <<project, task_table, method_table, service_table, completed>>

\* Time passes, also while populate_data runs.
Tick ==
    /\ clock < MaxTime
    /\ clock' = clock + 1
    /\ event' = NoEvent
    /\ UNCHANGED <<vars, file_path, last_trigger_time, wpc, invocations, db_vars>>

Handled(src, invoked) ==
    [handled |-> TRUE, src_path |-> src, time |-> clock, last |-> last_trigger_time,
     invoked |-> invoked]

\* ExcelFileChangeHandler.on_modified up to the call of process_file.
on_modified(src) ==
    /\ wpc = "idle"
    /\ IF endswith(src, "~$") \/ ~endswith(src, ".xlsx")
       THEN /\ event' = Handled(src, FALSE)
            /\ UNCHANGED <<last_trigger_time, invocations, wpc>>
       ELSE IF os_path_abspath(src) = file_path
            THEN IF DebounceElapsed(clock, last_trigger_time)
                 THEN /\ last_trigger_time' = clock
                      /\ invocations' = Append(invocations, clock)
                      /\ wpc' = "process_file"
                      /\ event' = Handled(src, TRUE)
                 ELSE /\ event' = Handled(src, FALSE)
                      /\ UNCHANGED <<last_trigger_time, invocations, wpc>>
            ELSE /\ event' = Handled(src, FALSE)
                 /\ UNCHANGED <<last_trigger_time, invocations, wpc>>
    /\ UNCHANGED <<vars, file_path, clock, db_vars>>

OnModified == \E src \in EventPaths : on_modified(src)

\* populate_data for one content of the Excel file, start to finish.
populate_data(wb) ==
    IF ~wb.exists \/ wb.rows = <<>>
    THEN UNCHANGED db_vars
    ELSE LET rows == InsertOrUpdate(wb.rows, 1, method_table, ExistingMethods(method_table))
         IN  /\ project' = TRUE
             /\ task_table' = task_table \cup { wb.rows[i].task_code : i \in DOMAIN wb.rows }
             /\ method_table' = rows
             /\ service_table' = AddServices(rows, service_table, completed + 1)
             /\ completed' = completed + 1

\* ExcelFileChangeHandler.process_file: populate_data, errors logged.
ProcessFile ==
    /\ wpc = "process_file"
    /\ \E wb \in Workbooks : populate_data(wb)
    /\ wpc' = "idle"
    /\ event' = NoEvent
    /\ UNCHANGED <<vars, file_path, last_trigger_time, clock, invocations>>

EtlNext == Tick \/ OnModified \/ ProcessFile

SpecEtl == EtlInit /\ [][EtlNext]_all_vars

\* C11: over events with non-decreasing times, on_modified invokes
\* process_file for an event if and only if the path ends with ".xlsx",
\* its absolute form is the monitored file and strictly more than 5 seconds
\* passed since last_trigger_time (the time of the last invoking event,
\* initially 0); any other event invokes nothing and leaves
\* last_trigger_time alone, so two invocations are more than 5 s apart.
Qualifies(e) ==
    /\ endswith(e.src_path, ".xlsx")
    /\ os_path_abspath(e.src_path) = file_path
    /\ e.time - e.last > debounce_interval

C11_Debounce ==
    /\ event.handled =>
          /\ event.invoked <=> Qualifies(event)
          /\ last_trigger_time = (IF event.invoked THEN event.time ELSE event.last)
          /\ wpc = (IF event.invoked THEN "process_file" ELSE "idle")
          /\ event.invoked => invocations[Len(invocations)] = event.time
    /\ last_trigger_time = (IF invocations = <<>> THEN 0 ELSE invocations[Len(invocations)])
    /\ \A a, b \in DOMAIN invocations :
          a < b => invocations[b] - invocations[a] > debounce_interval

C11_Witness ==
    /\ Len(invocations) > 1
    /\ event.handled
    /\ ~event.invoked
    /\ os_path_abspath(event.src_path) = file_path
    /\ event.time - event.last = debounce_interval

\* The service rows of one method, and those a given call inserted.
ServiceRowsOf(id) == { i \in DOMAIN service_table : service_table[i].method_id = id }

ServiceRowsOfCall(id, c) == { i \in ServiceRowsOf(id) : service_table[i].call = c }

FirstCallOf(id) ==
    CHOOSE c \in 1..completed :
        /\ ServiceRowsOfCall(id, c) # {}
        /\ \A b \in 1..completed : ServiceRowsOfCall(id, b) # {} => c <= b

\* The service rows alone: every call that passes step 6 adds exactly one
\* row per Method row, rows are never changed or removed, and a method
\* known since the first call has as many rows as there were calls.
ServiceRowsPerCall ==
    /\ \A i \in DOMAIN service_table : service_table[i].service_id = i
    /\ \A m \in DOMAIN method_table :
          LET id == method_table[m].method_id
          IN  /\ id = m
              /\ ServiceRowsOf(id) # {}
              /\ \A c \in 1..completed :
                    Cardinality(ServiceRowsOfCall(id, c)) = (IF c >= FirstCallOf(id) THEN 1 ELSE 0)
              /\ ServiceRowsOfCall(id, 1) # {} => Cardinality(ServiceRowsOf(id)) = completed

ServiceRowsKept == [][SubSeq(service_table', 1, Len(service_table)) = service_table]_all_vars

UniqueByName ==
    \A a, b \in DOMAIN method_table :
        method_table[a].name = method_table[b].name => a = b

\* C12: every populate_data call that passes step 6 adds exactly one new
\* service row for each Method row and never updates or deletes one, so
\* after k calls a method known since the first call has exactly k rows;
\* and Method rows stay unique by name (an extracted method whose name
\* already exists is updated in place, not inserted again).
C12_ServiceRowsAndUniqueNames == ServiceRowsPerCall /\ UniqueByName

====
